---- MODULE Spec2Model ----
(***************************************************************************)
(* Zaku Colony Destroyer: the combat core (Colony, ScoreSystem, Game).     *)
(*                                                                         *)
(* Number representation.  JavaScript numbers are modelled as exact        *)
(* fixed-point integers (the speed of the unit being rounded down to a     *)
(* hundred-thousandth of a unit per second after each blend):              *)
(*   - health and damage are in tenths of a health point (Scale = 10), so  *)
(*     the beam damage 10 * deltaTime * 60 of a frame of dt milliseconds   *)
(*     is 6 * dt tenths, and Math.floor(damage) is (damage \div Scale);    *)
(*   - times are in milliseconds (deltaTime seconds = dt / 1000);          *)
(*   - a destruction percentage p is stored as the numerator               *)
(*     p * totalHealth, i.e. 100 * (totalHealth - currentHealth), the      *)
(*     denominator being the colony's fixed totalHealth.                   *)
(***************************************************************************)
EXTENDS Integers, Sequences, FiniteSets

VARIABLES
  colony,        \* Game.colony
  scoreSystem,   \* Game.scoreSystem
  state,         \* Game.state
  missionTimer,  \* Game.missionTimer, in ms
  zaku,          \* Game.zaku: live bullets and last-fire timestamp
  now,           \* Date.now(), in ms
  pendingCrash,  \* delays left (ms) of the endGame callbacks scheduled by handleZakuCrash
  lastGameData,  \* what the last endGame recorded and showed
  storage,       \* localStorage: the stored high score and rankings, and its failure mode
  server,        \* the score server: websocket clients, the lowdb store, requests in flight
  lastOp,        \* the last handler run, its arguments and what it returned
  sinceScore,    \* history: ms passed to ScoreSystem.update since the last addScore
  steps          \* number of handlers run so far

vars == <<colony, scoreSystem, state, missionTimer, zaku, now, pendingCrash, lastGameData,
          storage, server, lastOp, sinceScore, steps>>

(***************************************************************************)
(* Bounds of the model                                                     *)
(***************************************************************************)
\* number of sections the modelled colony is built with (the source builds 33)
NumSections == 2
\* number of handler calls in one behaviour of a component driven directly
MaxSteps == 5
\* number of frames and callbacks in one behaviour of the game
MaxTicks == 3
\* number of ticks in one behaviour with the boost key held down
MaxBoostTicks == 85
\* number of websocket clients that can be connected at once
NumSockets == 2
\* number of events handled by the server in one behaviour
MaxServerSteps == 6
\* number of score submissions handled in one behaviour
NumRequests == 2

(***************************************************************************)
(* Program constants                                                       *)
(***************************************************************************)
Scale == 10
targetDestructionRate == 70
comboTimeout == 3000
\* GAME.missionTime (300 s), in ms
missionTime == 300 * 1000
fireRate == 100
bulletSpeed == 150
crashDelay == 500
\* speeds are in hundred-thousandths of a unit per second
SpeedScale == 100 * 1000
normalSpeed == 20 * SpeedScale
boostSpeed == 60 * SpeedScale
\* MOVEMENT.inertia and MOVEMENT.boostInertia, in hundredths
inertia == 97
boostInertia == 99
\* Zaku.maxBoostEnergy, in thousandths; the rates are per second, i.e.
\* thousandths per ms
maxBoostEnergy == 100 * 1000
boostRegenRate == 15
boostDrainRate == 25
\* angles are in thousandths of a degree: MOVEMENT.rotationSpeed = PI / 2 per
\* second is 90 thousandths per ms, PI is 180 degrees
rotationSpeed == 90
HalfTurn == 180 * 1000
\* WEAPONS.machineGun.range, in thousandths of a unit
bulletRange == 60 * 1000
\* WEAPONS.machineGun.damage, in tenths
bulletDamage == 10 * Scale

Null == [null |-> TRUE]

(***************************************************************************)
(* Colony                                                                  *)
(***************************************************************************)
\* the section literals of createColony, one per destructible type
SectionOfType(type) ==
  CASE type = "window"       -> [type |-> type, health |-> 50 * Scale,  maxHealth |-> 50 * Scale,  points |-> 100,  destroyed |-> FALSE]
    [] type = "solarPanel"   -> [type |-> type, health |-> 100 * Scale, maxHealth |-> 100 * Scale, points |-> 200,  destroyed |-> FALSE]
    [] type = "dockingBay"   -> [type |-> type, health |-> 200 * Scale, maxHealth |-> 200 * Scale, points |-> 500,  destroyed |-> FALSE]
    [] type = "controlTower" -> [type |-> type, health |-> 150 * Scale, maxHealth |-> 150 * Scale, points |-> 300,  destroyed |-> FALSE]
    [] OTHER                 -> [type |-> "hullSection", health |-> 500 * Scale, maxHealth |-> 500 * Scale, points |-> 1000, destroyed |-> FALSE]

\* the order in which createColony pushes the section types
BuildOrder == <<"window", "solarPanel", "dockingBay", "controlTower", "hullSection">>

\* type of the i-th section (0-based) of the modelled colony: the first
\* NumSections types of the build order, then hull sections
TypeAt(i) == IF i < Len(BuildOrder) THEN BuildOrder[i + 1] ELSE "hullSection"

RECURSIVE SumMaxHealth(_, _)
SumMaxHealth(secs, n) ==
  IF n = 0 THEN 0 ELSE secs[n - 1].maxHealth + SumMaxHealth(secs, n - 1)

\* new Colony(): sections pushed, totalHealth accumulated, currentHealth set
NewColony ==
  LET secs == [i \in 0..(NumSections - 1) |-> SectionOfType(TypeAt(i))]
      total == SumMaxHealth(secs, NumSections)
  IN [sections |-> secs,
      totalHealth |-> total,
      currentHealth |-> total,
      destructionPercentage |-> 0]

\* (destroyedHealth / totalHealth) * 100, as a numerator over totalHealth
PercentOf(destroyedHealth) == 100 * destroyedHealth

updateDestructionPercentage(c) ==
  [c EXCEPT !.destructionPercentage = PercentOf(c.totalHealth - c.currentHealth)]

getDestructionPercentage(c) == c.destructionPercentage

\* destroySection: hides the mesh, then recomputes the percentage
destroySection(c) == updateDestructionPercentage(c)

\* the guard without its destroyed test
NoSuchTargetIndexOnly(c, sectionIndex) ==
  sectionIndex \notin DOMAIN c.sections

\* the guard of damageSection: `!section || section.destroyed`
NoSuchTarget(c, sectionIndex) ==
  \/ sectionIndex \notin DOMAIN c.sections
  \/ c.sections[sectionIndex].destroyed

\* the subtraction with its sign slipped
HealthAfterAdded(health, damage) == health + damage

\* health left after a hit: `health -= damage`
HealthAfter(health, damage) == health - damage

\* the points of a hit rounded to the nearest integer
HitPointsRounded(damage) == (damage + Scale \div 2) \div Scale

\* points: Math.floor(damage)
HitPoints(damage) == damage \div Scale

\* damageSection(sectionIndex, damage): the colony afterwards and the value returned
damageSection(c, sectionIndex, damage) ==
  IF NoSuchTarget(c, sectionIndex)
  THEN [colony |-> c, ret |-> Null]
  ELSE
    LET section == c.sections[sectionIndex]
        h  == HealthAfter(section.health, damage)
        c1 == [c EXCEPT !.sections[sectionIndex].health = h,
                        !.currentHealth = HealthAfter(c.currentHealth, damage)]
    IN IF h <= 0
       THEN [colony |-> destroySection([c1 EXCEPT !.sections[sectionIndex].destroyed = TRUE]),
             ret |-> [points |-> section.points, destroyed |-> TRUE, type |-> section.type]]
       ELSE [colony |-> c1,
             ret |-> [points |-> HitPoints(damage), destroyed |-> FALSE, type |-> section.type]]

(***************************************************************************)
(* ScoreSystem                                                             *)
(***************************************************************************)
\* stats; accuracy is (shotsHit / shotsFired) * 100 of the two counters kept here
NewStats ==
  [totalDamage |-> 0, sectionsDestroyed |-> 0, maxCombo |-> 0,
   shotsFired |-> 0, shotsHit |-> 0]

\* new ScoreSystem(): highScore = loadHighScore(), 0 when nothing is stored
\* or the read throws
NewScoreSystem ==
  [score |-> 0, combo |-> 0, comboTimer |-> 0, highScore |-> 0, stats |-> NewStats]

\* the multiplier with the streak already incremented
ComboMultiplierAfterIncrement(combo) == 10 + (combo + 1)

\* comboMultiplier = 1 + combo * 0.1, in tenths
ComboMultiplier(combo) == 10 + combo

\* Math.floor(basePoints * comboMultiplier)
ComboPoints(basePoints, combo) == (basePoints * ComboMultiplier(combo)) \div 10

\* addScore(basePoints): the score system afterwards and the value returned
addScore(ss, basePoints) ==
  LET points == ComboPoints(basePoints, ss.combo)
      combo1 == ss.combo + 1
  IN [ss |-> [ss EXCEPT !.score = ss.score + points,
                        !.combo = combo1,
                        !.comboTimer = comboTimeout,
                        !.stats.maxCombo = IF combo1 > @ THEN combo1 ELSE @],
      ret |-> [points |-> points, combo |-> combo1, multiplier |-> ComboMultiplier(ss.combo)]]

resetCombo(ss) == [ss EXCEPT !.combo = 0, !.comboTimer = 0]

\* the timer decremented by the frame time in seconds instead of ms
ComboTimerAfterSeconds(comboTimer, dt) == comboTimer - (dt \div 1000)

\* comboTimer -= deltaTime * 1000 (dt is deltaTime * 1000)
ComboTimerAfter(comboTimer, dt) == comboTimer - dt

\* the expiry test with a strict comparison
ComboExpiredStrict(comboTimer) == comboTimer < 0

\* if (this.comboTimer <= 0)
ComboExpired(comboTimer) == comboTimer <= 0

\* ScoreSystem.update(deltaTime)
updateScore(ss, dt) ==
  IF ss.combo > 0
  THEN LET ss1 == [ss EXCEPT !.comboTimer = ComboTimerAfter(ss.comboTimer, dt)]
       IN IF ComboExpired(ss1.comboTimer) THEN resetCombo(ss1) ELSE ss1
  ELSE ss

recordShot(ss, hit) ==
  [ss EXCEPT !.stats.shotsFired = @ + 1,
             !.stats.shotsHit = IF hit THEN @ + 1 ELSE @]

recordDamage(ss, damage) == [ss EXCEPT !.stats.totalDamage = @ + damage]

recordDestruction(ss) == [ss EXCEPT !.stats.sectionsDestroyed = @ + 1]

\* the bonus taken from the current streak
ComboBonusOfStreak(ss) == ss.combo * 100

\* comboBonus = this.stats.maxCombo * 100
ComboBonus(ss) == ss.stats.maxCombo * 100

\* calculateFinalScore(timeRemaining, destructionPercent); timeRemaining in
\* ms, the percentage as pctNum / pctDen
calculateFinalScore(ss, timeRemaining, pctNum, pctDen) ==
  LET timeBonus == (timeRemaining * 50) \div 1000
      destructionBonus == (pctNum * 100) \div pctDen
      comboBonus == ComboBonus(ss)
  IN [baseScore |-> ss.score,
      timeBonus |-> timeBonus,
      destructionBonus |-> destructionBonus,
      comboBonus |-> comboBonus,
      finalScore |-> ss.score + timeBonus + destructionBonus + comboBonus]

\* ScoreSystem.reset(): everything but highScore
resetScore(ss) == [NewScoreSystem EXCEPT !.highScore = ss.highScore]

(***************************************************************************)
(* ScoreSystem: the high score and the rankings kept in localStorage       *)
(***************************************************************************)
\* how localStorage behaves in this browser: working, setItem throwing
\* (quota), getItem and setItem throwing (storage denied), or the stored
\* rankings unreadable (JSON.parse throws)
StorageModes == {"ok", "full", "denied", "corrupt"}

\* localStorage of a browser that has not stored anything yet
NewStorage(mode) == [mode |-> mode, highScore |-> 0, rankings |-> <<>>]

getItemThrows(st) == st.mode \in {"denied", "corrupt"}
setItemThrows(st) == st.mode \in {"full", "denied"}

\* saveHighScore(): setItem inside try/catch
saveHighScore(st, highScore) ==
  IF setItemThrows(st) THEN st ELSE [st EXCEPT !.highScore = highScore]

\* checkHighScore(): compares with the value in memory, stores a new one
checkHighScore(ss, st) ==
  IF ss.score > ss.highScore
  THEN [ss |-> [ss EXCEPT !.highScore = ss.score],
        storage |-> saveHighScore(st, ss.score),
        ret |-> TRUE]
  ELSE [ss |-> ss, storage |-> st, ret |-> FALSE]

\* loadRankings(): getItem and JSON.parse inside try/catch
loadRankings(st) == IF getItemThrows(st) THEN <<>> ELSE st.rankings

\* rankings.push(newEntry) and the stable sort by score, descending, of a
\* list that was stored sorted: the entry goes behind those scoring as much
PushSorted(rankings, newEntry) ==
  LET ahead == Cardinality({k \in 1..Len(rankings) : rankings[k].score >= newEntry.score})
  IN [k \in 1..(Len(rankings) + 1) |->
        IF k <= ahead THEN rankings[k]
        ELSE IF k = ahead + 1 THEN newEntry
        ELSE rankings[k - 1]]

\* topTen.findIndex(score and date equal), as the 1-based rank or -1
RankOf(topTen, newEntry) ==
  LET found == {k \in 1..Len(topTen) : /\ topTen[k].score = newEntry.score
                                       /\ topTen[k].date = newEntry.date}
  IN IF found = {} THEN 0 - 1
     ELSE CHOOSE k \in found : \A m \in found : k <= m

\* the try block of saveToRankings; threw: an exception left the block.
\* A successful setItem replaces what could not be parsed.
TryRankings(st, finalScore, pctNum, pctDen, timeRemaining, date) ==
  LET newEntry == [score |-> finalScore, destruction |-> pctNum \div pctDen,
                   time |-> timeRemaining \div 1000, date |-> date]
      sorted == PushSorted(loadRankings(st), newEntry)
      topTen == SubSeq(sorted, 1, IF Len(sorted) < 10 THEN Len(sorted) ELSE 10)
  IN IF setItemThrows(st)
     THEN [storage |-> st, ret |-> 0 - 1, threw |-> TRUE]
     ELSE [storage |-> [st EXCEPT !.rankings = topTen,
                                  !.mode = IF @ = "corrupt" THEN "ok" ELSE @],
           ret |-> RankOf(topTen, newEntry), threw |-> FALSE]

\* the exception of the try block let through
CatchRankingsRethrow(r) == r

\* catch (e) { return -1; }
CatchRankings(r) ==
  IF r.threw THEN [r EXCEPT !.ret = 0 - 1, !.threw = FALSE] ELSE r

\* saveToRankings(finalScore, destructionPercent, timeRemaining)
saveToRankings(st, finalScore, pctNum, pctDen, timeRemaining, date) ==
  CatchRankings(TryRankings(st, finalScore, pctNum, pctDen, timeRemaining, date))

(***************************************************************************)
(* Zaku: weapon and bullets                                                *)
(***************************************************************************)
\* new Zaku(): no bullet in flight, lastFireTime = 0, at rest, boost full;
\* speed is the velocity along the unit's thrust axis, its heading kept
NewZaku ==
  [bullets |-> <<>>, lastFireTime |-> 0,
   boostEnergy |-> maxBoostEnergy, isBoosting |-> FALSE, speed |-> 0,
   targetRotation |-> 0, currentRotation |-> 0]

\* no key held
Idle == [boost |-> FALSE, thrust |-> FALSE, rotation |-> 0]

\* the drain without its lower clamp
DrainedUnclamped(boostEnergy, dt) == boostEnergy - boostDrainRate * dt

\* Math.max(0, this.boostEnergy - this.boostDrainRate * deltaTime)
Drained(boostEnergy, dt) ==
  IF boostEnergy - boostDrainRate * dt < 0 THEN 0 ELSE boostEnergy - boostDrainRate * dt

\* Math.min(this.maxBoostEnergy, this.boostEnergy + this.boostRegenRate * deltaTime)
Regenerated(boostEnergy, dt) ==
  IF boostEnergy + boostRegenRate * dt > maxBoostEnergy THEN maxBoostEnergy
  ELSE boostEnergy + boostRegenRate * dt

\* the blend weighted by the inertia instead of 1 - inertia
BlendByInertia(speed, target, inert) == speed + ((target - speed) * inert) \div 100

\* this.velocity.lerp(targetVelocity, 1 - inertia)
Blend(speed, target, inert) == speed + ((target - speed) * (100 - inert)) \div 100

\* normalizeAngle(angle): brought into -PI..PI, one turn at a time
RECURSIVE normalizeAngle(_)
normalizeAngle(angle) ==
  IF angle > HalfTurn THEN normalizeAngle(angle - 2 * HalfTurn)
  ELSE IF angle < 0 - HalfTurn THEN normalizeAngle(angle + 2 * HalfTurn)
  ELSE angle

\* this.targetRotation += rotation * MOVEMENT.rotationSpeed * deltaTime
TargetTurned(z, rotation, dt) == z.targetRotation + rotation * rotationSpeed * dt

\* this.currentRotation += rotDiff * 5 * deltaTime, rounded down to a millidegree
YawSmoothed(currentRotation, targetRotation, dt) ==
  currentRotation + (normalizeAngle(targetRotation - currentRotation) * 5 * dt) \div 1000

\* processMovement(input, deltaTime): boost energy, yaw and velocity;
\* input.thrust says whether a movement axis is held, input.rotation is
\* rotateRight - rotateLeft
processMovement(z, input, dt) ==
  LET boosting == input.boost /\ z.boostEnergy > 0
      speed == IF boosting THEN boostSpeed ELSE normalSpeed
      inert == IF boosting THEN boostInertia ELSE inertia
      targetVelocity == IF input.thrust THEN speed ELSE 0
      target == IF input.rotation # 0 THEN TargetTurned(z, input.rotation, dt)
                ELSE z.targetRotation
  IN [z EXCEPT !.isBoosting = boosting,
               !.boostEnergy = IF boosting THEN Drained(@, dt) ELSE Regenerated(@, dt),
               !.targetRotation = target,
               !.currentRotation = YawSmoothed(@, target, dt),
               !.speed = Blend(@, targetVelocity, inert)]

\* setRotation(y): the heading is set, the yaw target is not
setRotation(z, y) == [z EXCEPT !.currentRotation = y]

\* Date.now() when the game starts: far more than fireRate after the epoch
StartTime == 1000 * fireRate

\* userData of a bullet as spawnBullet stores it
NewBullet ==
  [distanceTraveled |-> 0, maxDistance |-> bulletRange,
   damage |-> bulletDamage, speed |-> bulletSpeed]

\* the cooldown measured against half the fire rate
CoolingDownHalved(z, t) == t - z.lastFireTime < fireRate \div 2

\* if (now - this.lastFireTime < this.fireRate)
CoolingDown(z, t) == t - z.lastFireTime < fireRate

\* fire(): rejected inside the cooldown, otherwise one bullet spawned
fire(z, t) ==
  IF CoolingDown(z, t)
  THEN [zaku |-> z, ret |-> FALSE]
  ELSE [zaku |-> [z EXCEPT !.lastFireTime = t, !.bullets = Append(@, NewBullet)],
        ret |-> TRUE]

\* bullets.splice(i, 1), i being a 1-based position here
Splice(bullets, i) ==
  [k \in 1..(Len(bullets) - 1) |-> IF k < i THEN bullets[k] ELSE bullets[k + 1]]

\* the range test with a strict comparison
OutOfRangeStrict(bullet) == bullet.distanceTraveled > bullet.maxDistance

\* if (bullet.userData.distanceTraveled >= bullet.userData.maxDistance)
OutOfRange(bullet) == bullet.distanceTraveled >= bullet.maxDistance

\* the loop of updateBullets from position i down to the first bullet
RECURSIVE UpdateBulletsFrom(_, _, _)
UpdateBulletsFrom(bullets, i, dt) ==
  IF i < 1 THEN bullets
  ELSE LET moveDistance == bullets[i].speed * dt
           moved == [bullets EXCEPT ![i].distanceTraveled = @ + moveDistance]
       IN IF OutOfRange(moved[i])
          THEN UpdateBulletsFrom(Splice(moved, i), i - 1, dt)
          ELSE UpdateBulletsFrom(moved, i - 1, dt)

\* updateBullets(deltaTime)
updateBullets(z, dt) ==
  [z EXCEPT !.bullets = UpdateBulletsFrom(z.bullets, Len(z.bullets), dt)]

(***************************************************************************)
(* Game: hit resolution, mission end, frame                                *)
(***************************************************************************)
\* the raycaster found no intersection
NoHit == 0 - 1

\* getHitTargets(): the sections whose meshes are offered to the raycaster
getHitTargets(c) == {i \in DOMAIN c.sections : ~c.sections[i].destroyed}

\* getSectionAtPoint(intersect) for a ray that struck a mesh of section i
getSectionAtPoint(c, i) ==
  IF i \in DOMAIN c.sections /\ ~c.sections[i].destroyed THEN i ELSE NoHit

\* damage = 10 * deltaTime * 60, in tenths
BeamDamage(dt) == (10 * Scale * dt * 60) \div 1000

\* what both hit paths do after damageSection returned `result`:
\* stats, and on destruction the bounty through addScore
AfterDamage(w, kind, damage, result) ==
  IF result.ret = Null
  THEN [w EXCEPT !.colony = result.colony]
  ELSE LET ss1 == recordDamage(recordShot(w.ss, TRUE), damage)
           ev  == [kind |-> kind, damage |-> damage, ret |-> result.ret]
       IN IF result.ret.destroyed
          THEN [w EXCEPT !.colony = result.colony,
                         !.ss = addScore(recordDestruction(ss1), result.ret.points).ss,
                         !.events = Append(@, ev),
                         !.scored = TRUE]
          ELSE [w EXCEPT !.colony = result.colony,
                         !.ss = ss1,
                         !.events = Append(@, ev)]

\* handleShooting(): fire the gun, then resolve the beam against the ray's
\* nearest live target (beamTarget, NoHit if the ray meets none)
handleShooting(w, t, dt, beamTarget) ==
  LET w1 == [w EXCEPT !.zaku = fire(w.zaku, t).zaku]
  IN IF beamTarget \in getHitTargets(w1.colony)
     THEN LET sectionInfo == getSectionAtPoint(w1.colony, beamTarget)
          IN IF sectionInfo # NoHit
             THEN AfterDamage(w1, "beam", BeamDamage(dt),
                              damageSection(w1.colony, sectionInfo, BeamDamage(dt)))
             ELSE w1
     ELSE [w1 EXCEPT !.ss = recordShot(w1.ss, FALSE)]

\* the loop removing a bullet only when its hit destroyed the section
RECURSIVE CollideFromRemoveOnKill(_, _, _)
CollideFromRemoveOnKill(w, i, hits) ==
  IF i < 1 THEN w
  ELSE IF hits[i] = NoHit THEN CollideFromRemoveOnKill(w, i - 1, hits)
  ELSE LET bullet == w.zaku.bullets[i]
           sectionInfo == getSectionAtPoint(w.colony, hits[i])
           w1 == IF sectionInfo # NoHit
                 THEN AfterDamage(w, "bullet", bullet.damage,
                                  damageSection(w.colony, sectionInfo, bullet.damage))
                 ELSE w
           w2 == IF Len(w1.events) > Len(w.events) /\ w1.events[Len(w1.events)].ret.destroyed
                 THEN [w1 EXCEPT !.zaku.bullets = Splice(@, i)]
                 ELSE w1
       IN CollideFromRemoveOnKill(w2, i - 1, hits)

\* the loop of checkBulletCollisions from position i down to the first bullet;
\* hits[i] is the section whose mesh the ray of bullet i meets first among
\* the targets collected before the loop, or NoHit
RECURSIVE CollideFrom(_, _, _)
CollideFrom(w, i, hits) ==
  IF i < 1 THEN w
  ELSE IF hits[i] = NoHit THEN CollideFrom(w, i - 1, hits)
  ELSE LET bullet == w.zaku.bullets[i]
           sectionInfo == getSectionAtPoint(w.colony, hits[i])
           w1 == IF sectionInfo # NoHit
                 THEN AfterDamage(w, "bullet", bullet.damage,
                                  damageSection(w.colony, sectionInfo, bullet.damage))
                 ELSE w
           w2 == [w1 EXCEPT !.zaku.bullets = Splice(@, i)]
       IN CollideFrom(w2, i - 1, hits)

\* checkBulletCollisions()
checkBulletCollisions(w, hits) == CollideFrom(w, Len(w.zaku.bullets), hits)

\* the ray outcomes the raycaster can report for the live bullets
BulletHits(c, bullets) == [1..Len(bullets) -> getHitTargets(c) \cup {NoHit}]

\* getDestructionPercentage() >= GAME.targetDestructionRate
WinReached(c) ==
  getDestructionPercentage(c) >= targetDestructionRate * c.totalHealth

\* the guard never taken
AlreadyOverNever(g) == FALSE

\* if (this.state === 'gameover') return;
AlreadyOver(g) == g.state = "gameover"

\* endGame(victory, reason): ignored once the game is over; otherwise the
\* state is set, the final score computed, the high score and the rankings
\* saved, and the data recorded and shown (lastGameData and showGameOver).
\* An exception leaving saveToRankings would end the call before that.
endGame(g, victory, reason) ==
  IF AlreadyOver(g) THEN [g EXCEPT !.endCalls = @ + 1]
  ELSE LET scoreData == calculateFinalScore(g.ss, g.missionTimer,
                                            getDestructionPercentage(g.colony),
                                            g.colony.totalHealth)
           high == checkHighScore(g.ss, g.storage)
           rank == saveToRankings(high.storage, scoreData.finalScore,
                                  getDestructionPercentage(g.colony),
                                  g.colony.totalHealth, g.missionTimer, g.now)
           g1 == [g EXCEPT !.state = "gameover",
                           !.endCalls = @ + 1,
                           !.saveCalls = @ + 1,
                           !.ss = high.ss,
                           !.storage = rank.storage]
       IN IF rank.threw THEN g1
          ELSE [g1 EXCEPT !.lastGameData =
                       [finalScore |-> scoreData.finalScore,
                        baseScore |-> scoreData.baseScore,
                        timeBonus |-> scoreData.timeBonus,
                        destructionBonus |-> scoreData.destructionBonus,
                        comboBonus |-> scoreData.comboBonus,
                        destruction |-> getDestructionPercentage(g.colony),
                        timeRemaining |-> g.missionTimer,
                        isHighScore |-> high.ret,
                        rank |-> rank.ret,
                        isVictory |-> victory,
                        reason |-> reason]]

\* the callbacks of handleZakuCrash that come due within the next dt ms
RECURSIVE RunDueCallbacks(_, _, _)
RunDueCallbacks(g, pending, dt) ==
  IF pending = <<>> THEN g
  ELSE IF Head(pending) <= dt
       THEN RunDueCallbacks(endGame(g, FALSE, "collision"), Tail(pending), dt)
       ELSE RunDueCallbacks(g, Tail(pending), dt)

\* the delays still running after dt ms
StillPending(pending, dt) ==
  LET later == SelectSeq(pending, LAMBDA r : r > dt)
  IN [k \in 1..Len(later) |-> later[k] - dt]

\* update(deltaTime) up to and including handleShooting: unit moved, bullets advanced,
\* gun fired and beam resolved when the fire button is held
ShootingPhase(g, dt, in) ==
  LET w0 == [colony |-> g.colony, ss |-> g.ss,
             zaku |-> updateBullets(processMovement(g.zaku, in.move, dt), dt),
             events |-> <<>>, scored |-> FALSE]
  IN IF in.fire THEN handleShooting(w0, g.now, dt, in.beamTarget) ELSE w0

\* the timer test with a strict comparison
TimerExpiredStrict(timer) == timer < 0

\* if (this.missionTimer <= 0)
TimerExpired(timer) == timer <= 0

\* update(deltaTime) on the game g; in: the frame's input and the outcomes of
\* the collision query and of the beam's ray, hits: those of the bullets' rays
update(g, dt, in, hits) ==
  LET timer == g.missionTimer - dt
      g0 == [g EXCEPT !.missionTimer = timer, !.called = TRUE]
  IN IF TimerExpired(timer)
     THEN endGame(g0, FALSE, "timeout")
     ELSE
       LET w2 == checkBulletCollisions(ShootingPhase(g, dt, in), hits)
           g1 == [g0 EXCEPT !.colony = w2.colony,
                            !.ss = updateScore(w2.ss, dt),
                            !.zaku = w2.zaku,
                            !.events = w2.events,
                            !.scored = w2.scored,
                            !.updated = TRUE,
                            !.pendingCrash = IF in.crash THEN Append(@, crashDelay) ELSE @]
       IN IF WinReached(g1.colony) THEN endGame(g1, TRUE, "timeout") ELSE g1

\* pauseGame(): called by the blur listener while playing; resumeGame has no caller
pauseGame(g) == [g EXCEPT !.state = "paused"]

\* update run in every state but 'gameover'
IsPlayingUnlessOver(g) == g.state # "gameover"

\* gameLoop: if (this.state === 'playing')
IsPlaying(g) == g.state = "playing"

\* resetZakuPosition(): setPosition, setRotation(0), velocity.set(0, 0, 0)
resetZakuPosition(z) == [setRotation(z, 0) EXCEPT !.speed = 0]

\* restartGame(): state, timer, score and colony are reset, the unit is put
\* at rest with its boost full; the bullets, the scheduled callbacks and
\* lastGameData are not touched
restartGame(g) ==
  [g EXCEPT !.state = "playing",
            !.missionTimer = missionTime,
            !.ss = resetScore(g.ss),
            !.zaku = [resetZakuPosition(g.zaku) EXCEPT !.boostEnergy = maxBoostEnergy],
            !.colony = NewColony]

(***************************************************************************)
(* The score server: websocket heartbeat (server/ws/websocket.js)          *)
(***************************************************************************)
\* the sockets that can connect; a closed socket's number is free for a new one
Sockets == 1..NumSockets

\* the message types a client sends: the answer to a ping, a subscription,
\* and text that JSON.parse rejects
MessageKinds == {"pong", "subscribe", "garbage"}

\* the server when it starts listening: nobody connected.
\* unanswered is history: the sockets pinged by the last round that have
\* not answered since
NewServer ==
  [wssClients |-> {}, clients |-> {},
   isAlive |-> [ws \in Sockets |-> FALSE],
   unanswered |-> {},
   scores |-> <<>>, data |-> <<>>, writes |-> <<>>,
   requests |-> [r \in 1..NumRequests |-> [pc |-> "idle", score |-> 0,
                                           willBeHighScore |-> FALSE, rank |-> 0]],
   announced |-> <<>>]

\* handleConnection(ws, req); the library has put ws into wss.clients
handleConnection(sv, ws) ==
  [sv EXCEPT !.wssClients = @ \cup {ws},
             !.isAlive[ws] = TRUE,
             !.clients = @ \cup {ws}]

\* any message counted as an answer
IsPongAny(kind) == TRUE

\* handleMessage: case 'pong' of the switch on message.type
IsPong(kind) == kind = "pong"

\* handleMessage(ws, data): JSON.parse in try/catch, then the switch
handleMessage(sv, ws, kind) ==
  IF kind # "garbage" /\ IsPong(kind) THEN [sv EXCEPT !.isAlive[ws] = TRUE] ELSE sv

\* ws.on('pong'): a pong frame
onPong(sv, ws) == [sv EXCEPT !.isAlive[ws] = TRUE]

\* ws.on('close'); the library takes the socket out of wss.clients
onClose(sv, ws) ==
  [sv EXCEPT !.wssClients = @ \ {ws}, !.clients = @ \ {ws}]

\* ws.on('error')
onError(sv, ws) == [sv EXCEPT !.clients = @ \ {ws}]

\* the 30 s interval of initWebSocket: a socket found not alive is deleted
\* and terminated (its close event follows before the next round), the
\* others are marked not alive and pinged
heartbeat(sv) ==
  LET dead == {ws \in sv.wssClients : ~sv.isAlive[ws]}
  IN [sv EXCEPT !.clients = @ \ dead,
                !.wssClients = @ \ dead,
                !.isAlive = [ws \in Sockets |->
                               IF ws \in sv.wssClients \ dead THEN FALSE ELSE @[ws]]]

\* getConnectedCount()
getConnectedCount(sv) == Cardinality(sv.clients)

(***************************************************************************)
(* The score server: the lowdb store (database module) and POST            *)
(* /api/scores.  scores is the content of scores.json, data is             *)
(* db.data.scores, the copy in memory that every db.read() replaces;       *)
(* writes holds the db.write() calls whose file write has not finished,    *)
(* oldest first, each with the text it serialised when it was called.      *)
(***************************************************************************)
\* the submissions handled in one behaviour
Requests == 1..NumRequests

\* db.read() completing: db.data = the parsed file
dbRead(sv) == [sv EXCEPT !.data = sv.scores]

\* isNewHighScore(score), once the db.read() of getHighScore has completed
isNewHighScore(sv, score) == Len(sv.data) = 0 \/ score > sv.data[1].score

\* addScore from the end of its db.read() up to the call of db.write():
\* the record (its id is the submission's number) is pushed and the list sorted
addScorePush(sv, r, score) ==
  LET sorted == PushSorted(dbRead(sv).data, [id |-> r, score |-> score])
  IN [sv EXCEPT !.data = sorted,
                !.writes = Append(@, [r |-> r, text |-> sorted])]

\* db.data.scores.findIndex(s => s.id === record.id) + 1
addScoreRank(sv, r) ==
  LET found == {k \in 1..Len(sv.data) : sv.data[k].id = r}
  IN IF found = {} THEN 0 ELSE CHOOSE k \in found : \A m \in found : k <= m

(***************************************************************************)
(* Initial state: Game constructed and init() run (startGame)              *)
(***************************************************************************)
Init ==
  /\ colony = NewColony
  /\ scoreSystem = NewScoreSystem
  /\ state = "playing"
  /\ missionTimer = missionTime
  /\ zaku = NewZaku
  /\ now = StartTime
  /\ pendingCrash = <<>>
  /\ lastGameData = Null
  /\ storage = NewStorage("ok")
  /\ server = NewServer
  /\ lastOp = [op |-> "init"]
  /\ sinceScore = 0
  /\ steps = 0

(***************************************************************************)
(* The colony driven directly: any sequence of damageSection calls         *)
(***************************************************************************)
\* section indices tried by callers: the valid ones and one on either side
Indices == -1..NumSections
\* damage amounts in tenths: 0, a 16 ms beam frame (9.6), a bullet (10),
\* a 50 ms beam frame (30) and a 200 ms beam frame (120)
Amounts == {0, 96, 100, 300, 1200}

DamageSection(i, amount) ==
  /\ steps < MaxSteps
  /\ LET r == damageSection(colony, i, amount)
     IN /\ colony' = r.colony
        /\ lastOp' = [op |-> "damageSection", index |-> i, amount |-> amount, ret |-> r.ret]
  /\ steps' = steps + 1
  /\ UNCHANGED <<scoreSystem, state, missionTimer, zaku, now, pendingCrash, lastGameData, storage, server, sinceScore>>

NextColony == \E i \in Indices, amount \in Amounts : DamageSection(i, amount)

SpecColony == Init /\ [][NextColony]_vars

(***************************************************************************)
(* Claims about the colony                                                 *)
(***************************************************************************)
ValidIndices == 0..(NumSections - 1)

\* C1: damageSection with an index outside the section array, or on a section
\* already destroyed, returns null and changes no section's health or
\* destroyed flag, nor currentHealth, nor the destruction percentage,
\* however many calls came before.
C1_NullAndNoEffect ==
  [][(/\ lastOp'.op = "damageSection"
      /\ \/ lastOp'.index \notin ValidIndices
         \/ colony.sections[lastOp'.index].destroyed)
     => (/\ lastOp'.ret = Null
         /\ colony'.sections = colony.sections
         /\ colony'.currentHealth = colony.currentHealth
         /\ colony'.destructionPercentage = colony.destructionPercentage)]_vars

\* a repeated call on a destroyed section, after earlier damage, returned null
C1_Witness ==
  /\ lastOp.op = "damageSection"
  /\ lastOp.index \in ValidIndices
  /\ lastOp.amount > 0
  /\ lastOp.ret = Null
  /\ colony.sections[lastOp.index].destroyed
  /\ colony.currentHealth < colony.totalHealth

\* C2: every section has 0 <= health <= maxHealth, and a destroyed section
\* has health exactly 0.
C2_HealthWithinBounds ==
  \A i \in ValidIndices :
    /\ 0 <= colony.sections[i].health
    /\ colony.sections[i].health <= colony.sections[i].maxHealth
    /\ colony.sections[i].destroyed => colony.sections[i].health = 0

\* C3: whenever every section is destroyed the destruction percentage is
\* exactly 100.
C3_AllDestroyedIsHundred ==
  (\A i \in ValidIndices : colony.sections[i].destroyed)
    => getDestructionPercentage(colony) = 100 * colony.totalHealth

\* C4: from one state to the next the value of getDestructionPercentage
\* never decreases and currentHealth never increases.
C4_Monotone ==
  [][/\ getDestructionPercentage(colony') >= getDestructionPercentage(colony)
     /\ colony'.currentHealth <= colony.currentHealth]_vars

\* a section has been destroyed and a later hit on another one did damage
C4_Witness ==
  /\ lastOp.op = "damageSection"
  /\ lastOp.ret # Null
  /\ lastOp.amount > 0
  /\ ~lastOp.ret.destroyed
  /\ getDestructionPercentage(colony) > 0
  /\ \E i \in ValidIndices : colony.sections[i].destroyed

\* C5: in every reachable state the percentage returned by
\* getDestructionPercentage equals (totalHealth - currentHealth) /
\* totalHealth * 100 of the current aggregate health.
C5_PercentageIsDerived ==
  getDestructionPercentage(colony) = 100 * (colony.totalHealth - colony.currentHealth)

\* C20: damageSection on a valid section that is not destroyed subtracts
\* the amount from the section's health and from currentHealth, and returns
\* destroyed = true with the section's fixed points and type exactly when
\* the resulting health is <= 0 (marking the section destroyed), otherwise
\* destroyed = false with points = floor(amount); no other section changes.
C20_DamageSectionResult ==
  [][(/\ lastOp'.op = "damageSection"
      /\ lastOp'.index \in ValidIndices
      /\ ~colony.sections[lastOp'.index].destroyed)
     => LET i == lastOp'.index
            before == colony.sections[i]
            after == colony'.sections[i]
            dead == before.health - lastOp'.amount <= 0
        IN /\ after.health = before.health - lastOp'.amount
           /\ colony'.currentHealth = colony.currentHealth - lastOp'.amount
           /\ lastOp'.ret # Null
           /\ lastOp'.ret.destroyed = dead
           /\ after.destroyed = dead
           /\ lastOp'.ret.type = before.type
           /\ lastOp'.ret.points = IF dead THEN before.points ELSE lastOp'.amount \div 10
           /\ \A j \in ValidIndices \ {i} : colony'.sections[j] = colony.sections[j]]_vars

\* the window (maxHealth 50, 100 points) hit twice with 30: the second hit
\* returned destroyed with the 100 points
C20_Witness ==
  /\ lastOp.op = "damageSection"
  /\ lastOp.index = 0
  /\ lastOp.amount = 30 * Scale
  /\ lastOp.ret = [points |-> 100, destroyed |-> TRUE, type |-> "window"]
  /\ colony.sections[0].health = (50 - 30 - 30) * Scale
  /\ colony.currentHealth = colony.totalHealth - 60 * Scale

(***************************************************************************)
(* The score system driven directly: any sequence of its operations        *)
(***************************************************************************)
\* base points handed to addScore: nothing, floor of a 9.6 beam hit, and the
\* bounties of a window and of a hull section
BasePoints == {0, 9, 100, 1000}
\* frame times in ms: none, a 60 fps frame, half the combo window, the window
ScoreDeltas == {0, 16, 1500, 3000}
\* mission time left in ms: none, 1.51 s (a time bonus of 75.5 before the
\* floor); the percentage handed over is 200/3 (two thirds destroyed)
TimesRemaining == {0, 1510}

AddScore(basePoints) ==
  /\ steps < MaxSteps
  /\ LET r == addScore(scoreSystem, basePoints)
     IN /\ scoreSystem' = r.ss
        /\ lastOp' = [op |-> "addScore", basePoints |-> basePoints, ret |-> r.ret]
  /\ sinceScore' = 0
  /\ steps' = steps + 1
  /\ UNCHANGED <<colony, state, missionTimer, zaku, now, pendingCrash, lastGameData, storage, server>>

UpdateScore(dt) ==
  /\ steps < MaxSteps
  /\ scoreSystem' = updateScore(scoreSystem, dt)
  /\ lastOp' = [op |-> "update", dt |-> dt, comboBefore |-> scoreSystem.combo]
  /\ sinceScore' = sinceScore + dt
  /\ steps' = steps + 1
  /\ UNCHANGED <<colony, state, missionTimer, zaku, now, pendingCrash, lastGameData, storage, server>>

ResetCombo ==
  /\ steps < MaxSteps
  /\ scoreSystem' = resetCombo(scoreSystem)
  /\ lastOp' = [op |-> "resetCombo"]
  /\ steps' = steps + 1
  /\ UNCHANGED <<colony, state, missionTimer, zaku, now, pendingCrash, lastGameData, storage, server, sinceScore>>

ResetScore ==
  /\ steps < MaxSteps
  /\ scoreSystem' = resetScore(scoreSystem)
  /\ lastOp' = [op |-> "reset"]
  /\ steps' = steps + 1
  /\ UNCHANGED <<colony, state, missionTimer, zaku, now, pendingCrash, lastGameData, storage, server, sinceScore>>

RecordShot(hit) ==
  /\ steps < MaxSteps
  /\ scoreSystem' = recordShot(scoreSystem, hit)
  /\ lastOp' = [op |-> "recordShot", hit |-> hit]
  /\ steps' = steps + 1
  /\ UNCHANGED <<colony, state, missionTimer, zaku, now, pendingCrash, lastGameData, storage, server, sinceScore>>

RecordDamage(damage) ==
  /\ steps < MaxSteps
  /\ scoreSystem' = recordDamage(scoreSystem, damage)
  /\ lastOp' = [op |-> "recordDamage", damage |-> damage]
  /\ steps' = steps + 1
  /\ UNCHANGED <<colony, state, missionTimer, zaku, now, pendingCrash, lastGameData, storage, server, sinceScore>>

RecordDestruction ==
  /\ steps < MaxSteps
  /\ scoreSystem' = recordDestruction(scoreSystem)
  /\ lastOp' = [op |-> "recordDestruction"]
  /\ steps' = steps + 1
  /\ UNCHANGED <<colony, state, missionTimer, zaku, now, pendingCrash, lastGameData, storage, server, sinceScore>>

\* calculateFinalScore(timeRemaining, pctNum / pctDen)
CalculateFinalScore(timeRemaining, pctNum, pctDen) ==
  /\ steps < MaxSteps
  /\ lastOp' = [op |-> "calculateFinalScore", timeRemaining |-> timeRemaining,
                pctNum |-> pctNum, pctDen |-> pctDen,
                ret |-> calculateFinalScore(scoreSystem, timeRemaining, pctNum, pctDen)]
  /\ steps' = steps + 1
  /\ UNCHANGED <<colony, scoreSystem, state, missionTimer, zaku, now, pendingCrash, lastGameData, storage, server, sinceScore>>

NextScore ==
  \/ \E basePoints \in BasePoints : AddScore(basePoints)
  \/ \E dt \in ScoreDeltas : UpdateScore(dt)
  \/ ResetCombo
  \/ ResetScore
  \/ \E hit \in BOOLEAN : RecordShot(hit)
  \/ RecordDamage(100)
  \/ RecordDestruction
  \/ \E timeRemaining \in TimesRemaining : CalculateFinalScore(timeRemaining, 200, 3)

SpecScore == Init /\ [][NextScore]_vars

(***************************************************************************)
(* Claims about the score system                                           *)
(***************************************************************************)
\* C8: addScore(basePoints) adds floor(basePoints * (1 + c * 0.1)) to the
\* score for the streak c before the call, increments the streak by exactly 1
\* and sets the streak timeout to the full window; no other operation
\* increases the score or the streak.
C8_AddScore ==
  [][/\ lastOp'.op = "addScore"
          => /\ scoreSystem'.score
                  = scoreSystem.score + (lastOp'.basePoints * (10 + scoreSystem.combo)) \div 10
             /\ scoreSystem'.combo = scoreSystem.combo + 1
             /\ scoreSystem'.comboTimer = 3000
     /\ (scoreSystem'.score > scoreSystem.score \/ scoreSystem'.combo > scoreSystem.combo)
          => lastOp'.op = "addScore"]_vars

\* an addScore at streak 2 or more paid more than its base points
C8_Witness ==
  /\ lastOp.op = "addScore"
  /\ scoreSystem.combo >= 3
  /\ lastOp.ret.points > lastOp.basePoints
  /\ scoreSystem.comboTimer = 3000

\* C9: while the combo is active each addScore raises the streak by exactly
\* 1; update leaves the streak unchanged while the time accumulated since the
\* last addScore is below the window, and the first update at which the
\* window has elapsed sets the streak to exactly 0.
C9_StreakSteps ==
  [][/\ (lastOp'.op = "addScore" /\ scoreSystem.combo > 0)
          => scoreSystem'.combo = scoreSystem.combo + 1
     /\ (lastOp'.op = "update" /\ scoreSystem.combo > 0)
          => IF sinceScore' < 3000
             THEN scoreSystem'.combo = scoreSystem.combo
             ELSE scoreSystem'.combo = 0]_vars

\* a streak of at least 2 survived an update and then fell to 0 in the update
\* at which the window had elapsed
C9_Witness ==
  /\ lastOp.op = "update"
  /\ lastOp.comboBefore >= 2
  /\ lastOp.dt < 3000
  /\ lastOp.dt > 0
  /\ sinceScore >= 3000
  /\ scoreSystem.combo = 0

\* C10: after every operation, streak > 0 implies timeout > 0, and a timeout
\* that has reached 0 comes with streak 0 and timeout exactly 0.
C10_StreakImpliesTimeout ==
  /\ scoreSystem.combo > 0 => scoreSystem.comboTimer > 0
  /\ scoreSystem.comboTimer <= 0 => (scoreSystem.combo = 0 /\ scoreSystem.comboTimer = 0)

\* an update ran the timeout of an active streak down and reset both
C10_Witness ==
  /\ lastOp.op = "update"
  /\ lastOp.comboBefore > 0
  /\ lastOp.dt > 0
  /\ scoreSystem.combo = 0
  /\ scoreSystem.comboTimer = 0

\* C18: calculateFinalScore(timeRemaining, destructionPercent) returns
\* finalScore = score + floor(timeRemaining * 50) + floor(destructionPercent
\* * 100) + maxCombo * 100 and changes neither score, streak nor statistics;
\* maxCombo is the largest streak reached since the last reset.
C18_FinalScore ==
  [][/\ lastOp'.op = "calculateFinalScore"
          => /\ lastOp'.ret.finalScore
                  = scoreSystem.score
                    + (lastOp'.timeRemaining * 50) \div 1000
                    + (lastOp'.pctNum * 100) \div lastOp'.pctDen
                    + scoreSystem.stats.maxCombo * 100
             /\ lastOp'.ret.baseScore = scoreSystem.score
             /\ scoreSystem' = scoreSystem
     /\ scoreSystem'.stats.maxCombo
          = IF lastOp'.op = "reset" THEN 0
            ELSE IF scoreSystem'.combo > scoreSystem.stats.maxCombo THEN scoreSystem'.combo
            ELSE scoreSystem.stats.maxCombo]_vars

\* a final score computed after a streak of 2 had run out: the bonus counts
\* the largest streak, and both floors cut a fraction off
C18_Witness ==
  /\ lastOp.op = "calculateFinalScore"
  /\ lastOp.timeRemaining = 1510
  /\ scoreSystem.stats.maxCombo >= 2
  /\ scoreSystem.combo = 0
  /\ scoreSystem.score > 0
  /\ lastOp.ret.finalScore = scoreSystem.score + 75 + 6666 + scoreSystem.stats.maxCombo * 100

(***************************************************************************)
(* The game: frames of the game loop, and the restart button               *)
(***************************************************************************)
\* frame times in ms: 60 fps, 10 fps, a stall as long as the combo
\* window, a stall as long as the mission
FrameTimes == {16, 100, 3000, 300000}

\* the game as one record, at a time t
Game(t, pending) ==
  [state |-> state, missionTimer |-> missionTimer, colony |-> colony,
   ss |-> scoreSystem, zaku |-> zaku, now |-> t, pendingCrash |-> pending,
   lastGameData |-> lastGameData, storage |-> storage,
   events |-> <<>>, scored |-> FALSE, updated |-> FALSE,
   called |-> FALSE, endCalls |-> 0, saveCalls |-> 0]

SetGame(g) ==
  /\ state' = g.state
  /\ missionTimer' = g.missionTimer
  /\ colony' = g.colony
  /\ scoreSystem' = g.ss
  /\ zaku' = g.zaku
  /\ now' = g.now
  /\ pendingCrash' = g.pendingCrash
  /\ lastGameData' = g.lastGameData
  /\ storage' = g.storage

\* the ray outcomes of a frame: any the raycaster can report when the
\* colony is within reach of the bullets, none otherwise
RayOutcomes(w, inReach) ==
  IF inReach THEN BulletHits(w.colony, w.zaku.bullets)
  ELSE {[k \in 1..Len(w.zaku.bullets) |-> NoHit]}

\* one animation frame dt ms after the previous one: the callbacks that came
\* due in between run first, then gameLoop calls update if the game is playing
FrameRays(dt, in, inReach) ==
  /\ steps < MaxTicks
  /\ in.fire \/ in.beamTarget = NoHit
  /\ \E g1 \in {RunDueCallbacks(Game(now + dt, StillPending(pendingCrash, dt)),
                                 pendingCrash, dt)} :
        IF IsPlaying(g1)
        THEN \E w \in {ShootingPhase(g1, dt, in)} :
             \E hits \in RayOutcomes(w, inReach) :
             \E g2 \in {update(g1, dt, in, hits)} :
                  /\ SetGame(g2)
                  /\ sinceScore' = IF ~g2.updated THEN sinceScore
                                   ELSE IF g2.scored THEN dt ELSE sinceScore + dt
                  /\ lastOp' = [op |-> "gameLoop", dt |-> dt, updated |-> g2.updated,
                                events |-> g2.events, comboBefore |-> scoreSystem.combo,
                                called |-> g2.called, hits |-> hits,
                                endCalls |-> g2.endCalls, saveCalls |-> g2.saveCalls]
        ELSE /\ SetGame(g1)
             /\ in = [fire |-> FALSE, beamTarget |-> NoHit, crash |-> FALSE, move |-> Idle]
             /\ sinceScore' = sinceScore
             /\ lastOp' = [op |-> "gameLoop", dt |-> dt, updated |-> FALSE,
                           events |-> <<>>, comboBefore |-> scoreSystem.combo,
                           called |-> FALSE, hits |-> <<>>,
                           endCalls |-> g1.endCalls, saveCalls |-> g1.saveCalls]
  /\ steps' = steps + 1
  /\ UNCHANGED server

Frame(dt, in) == FrameRays(dt, in, TRUE)

\* the restart button of the game-over screen
RestartGame ==
  /\ steps < MaxTicks
  /\ state = "gameover"
  /\ SetGame(restartGame(Game(now, pendingCrash)))
  /\ lastOp' = [op |-> "restartGame"]
  /\ steps' = steps + 1
  /\ UNCHANGED <<sinceScore, server>>

\* the window loses focus
PauseGame ==
  /\ steps < MaxTicks
  /\ state = "playing"
  /\ SetGame(pauseGame(Game(now, pendingCrash)))
  /\ lastOp' = [op |-> "pauseGame"]
  /\ steps' = steps + 1
  /\ UNCHANGED <<sinceScore, server>>

\* the inputs of a frame; the movement keys are left alone here, the flight
\* being explored on its own below
Inputs ==
  [fire : BOOLEAN, beamTarget : getHitTargets(colony) \cup {NoHit}, crash : BOOLEAN,
   move : {Idle}]

Next ==
  \/ \E dt \in FrameTimes, in \in Inputs : Frame(dt, in)
  \/ RestartGame

Spec == Init /\ [][Next]_vars

(***************************************************************************)
(* Claims about the frame                                                  *)
(***************************************************************************)
\* C6: at the end of a frame whose damage brings (totalHealth -
\* currentHealth) / totalHealth * 100 to the threshold of 70 or above the
\* mission has ended with victory; it is never still 'playing' after a frame
\* with the aggregate damage at or above the threshold.
C6_WinSeenInSameFrame ==
  (/\ lastOp.op = "gameLoop"
   /\ lastOp.updated
   /\ 100 * (colony.totalHealth - colony.currentHealth) >= 70 * colony.totalHealth)
    => (state = "gameover" /\ lastGameData.isVictory)

\* C7: a frame whose only resolved hit (beam or bullet) damages a section
\* without destroying it adds floor(damage * (1 + streak * 0.1)) to the score,
\* raises the streak by 1 and restarts the streak timeout.
C7_NonLethalHitScores ==
  [][(/\ lastOp'.op = "gameLoop"
      /\ lastOp'.updated
      /\ lastOp'.dt < 3000
      /\ Len(lastOp'.events) = 1
      /\ ~lastOp'.events[1].ret.destroyed)
     => (/\ scoreSystem'.score
              = scoreSystem.score
                + (lastOp'.events[1].damage * (10 + scoreSystem.combo)) \div (10 * Scale)
         /\ scoreSystem'.combo = scoreSystem.combo + 1
         /\ scoreSystem'.comboTimer = 3000 - lastOp'.dt)]_vars

(***************************************************************************)
(* The mission end: frames in which the bullets' rays meet nothing, in a   *)
(* browser whose localStorage may fail                                     *)
(***************************************************************************)
\* frame times in ms: 10 fps, a stall longer than the crash delay, a stall
\* as long as the mission
MissionTimes == {100, 3000, 300000}

InitMission ==
  /\ colony = NewColony
  /\ scoreSystem = NewScoreSystem
  /\ state = "playing"
  /\ missionTimer = missionTime
  /\ zaku = NewZaku
  /\ now = StartTime
  /\ pendingCrash = <<>>
  /\ lastGameData = Null
  /\ storage \in {NewStorage(mode) : mode \in StorageModes}
  /\ server = NewServer
  /\ lastOp = [op |-> "init"]
  /\ sinceScore = 0
  /\ steps = 0

MissionFrame(dt, in) == FrameRays(dt, in, FALSE)

NextMission ==
  \/ \E dt \in MissionTimes, in \in Inputs : MissionFrame(dt, in)
  \/ RestartGame
  \/ PauseGame

SpecMission == InitMission /\ [][NextMission]_vars

(***************************************************************************)
(* Claims about the mission end                                            *)
(***************************************************************************)
\* C14: a frame whose update brings the mission timer to 0 or below ends the
\* mission in that frame with victory = false and reason 'timeout', and does
\* nothing else: the unit and its bullets, the colony, the score, streak and
\* statistics are as before the frame and no crash is registered.
C14_TimeoutEndsFrame ==
  [][(/\ lastOp'.op = "gameLoop"
      /\ lastOp'.called
      /\ missionTimer - lastOp'.dt <= 0)
     => (/\ state' = "gameover"
         /\ lastGameData'.isVictory = FALSE
         /\ lastGameData'.reason = "timeout"
         /\ lastGameData'.timeRemaining = missionTimer - lastOp'.dt
         /\ zaku' = zaku
         /\ colony' = colony
         /\ [scoreSystem' EXCEPT !.highScore = scoreSystem.highScore] = scoreSystem
         /\ lastOp'.events = <<>>
         /\ Len(pendingCrash') <= Len(pendingCrash))]_vars

\* the timer ran out in a frame that had a bullet in flight, and the mission
\* ended on timeout with the bullet where it was
C14_Witness ==
  /\ lastOp.op = "gameLoop"
  /\ lastOp.called
  /\ ~lastOp.updated
  /\ missionTimer < 0
  /\ state = "gameover"
  /\ lastGameData.reason = "timeout"
  /\ Len(zaku.bullets) >= 1
  /\ zaku.bullets[1].distanceTraveled = 0

\* C15: once endGame has run in a mission, further endGame calls (timeout
\* check, win check, delayed collision callbacks) change nothing: state,
\* lastGameData, the stored high score and rankings stay those of the first
\* call; checkHighScore and saveToRankings run exactly once, in the frame
\* that ends the mission, and the first call of that frame is the one
\* recorded.
C15_GameOverOnce ==
  [][/\ lastOp'.op = "gameLoop"
          => /\ lastOp'.saveCalls <= 1
             /\ lastOp'.saveCalls = IF state # "gameover" /\ state' = "gameover" THEN 1 ELSE 0
     /\ (lastOp'.op = "gameLoop" /\ state = "gameover")
          => /\ state' = "gameover"
             /\ lastGameData' = lastGameData
             /\ storage' = storage
             /\ scoreSystem' = scoreSystem
     /\ (/\ lastOp'.op = "gameLoop"
         /\ state # "gameover"
         /\ \E k \in 1..Len(pendingCrash) : pendingCrash[k] <= lastOp'.dt)
          => /\ state' = "gameover"
             /\ lastGameData'.reason = "collision"
             /\ lastGameData'.isVictory = FALSE
             /\ lastGameData'.timeRemaining = missionTimer
     /\ lastOp'.op = "restartGame"
          => (storage' = storage /\ lastGameData' = lastGameData)]_vars

\* a collision callback came due after the mission had been won: endGame
\* was called and nothing was saved or recorded again
C15_Witness ==
  /\ lastOp.op = "gameLoop"
  /\ lastOp.endCalls >= 1
  /\ lastOp.saveCalls = 0
  /\ state = "gameover"
  /\ lastGameData.isVictory
  /\ lastGameData.reason = "timeout"

Elapsed == {0, 16, 50, 100}
\* frame times in ms handed to updateBullets: a 60 fps frame, half the flight
\* time of a bullet (60 / 150 s = 400 ms), the flight time
FlightTimes == {16, 200, 400}

\* fire() called `elapsed` ms after the previous call
Fire(elapsed) ==
  /\ steps < MaxSteps
  /\ now' = now + elapsed
  /\ LET r == fire(zaku, now')
     IN /\ zaku' = r.zaku
        /\ lastOp' = [op |-> "fire", t |-> now', ret |-> r.ret]
  /\ steps' = steps + 1
  /\ UNCHANGED <<colony, scoreSystem, state, missionTimer, pendingCrash, lastGameData, storage, server, sinceScore>>

\* updateBullets(deltaTime) of a frame dt ms after the previous call
UpdateBullets(dt) ==
  /\ steps < MaxSteps
  /\ now' = now + dt
  /\ zaku' = updateBullets(zaku, dt)
  /\ lastOp' = [op |-> "updateBullets", dt |-> dt,
                removed |-> Len(zaku.bullets) - Len(zaku'.bullets)]
  /\ steps' = steps + 1
  /\ UNCHANGED <<colony, scoreSystem, state, missionTimer, pendingCrash, lastGameData, storage, server, sinceScore>>

\* checkBulletCollisions() with the ray outcomes `hits` of the live bullets
CheckBulletCollisions(hits) ==
  /\ steps < MaxSteps
  /\ LET w == checkBulletCollisions([colony |-> colony, ss |-> scoreSystem, zaku |-> zaku,
                                     events |-> <<>>, scored |-> FALSE], hits)
     IN /\ colony' = w.colony
        /\ scoreSystem' = w.ss
        /\ zaku' = w.zaku
        /\ sinceScore' = IF w.scored THEN 0 ELSE sinceScore
        /\ lastOp' = [op |-> "checkBulletCollisions", hits |-> hits, events |-> w.events]
  /\ steps' = steps + 1
  /\ UNCHANGED <<state, missionTimer, now, pendingCrash, lastGameData, storage, server>>

NextWeapon ==
  \/ \E elapsed \in Elapsed : Fire(elapsed)
  \/ \E dt \in FlightTimes : UpdateBullets(dt)
  \/ \E hits \in BulletHits(colony, zaku.bullets) : CheckBulletCollisions(hits)

SpecWeapon == Init /\ [][NextWeapon]_vars

(***************************************************************************)
(* Claims about the weapon                                                 *)
(***************************************************************************)
\* C11: a fire() called less than fireRate (100 ms) after the last accepted
\* one returns false and leaves the live bullets and the last-fire timestamp
\* unchanged; an accepted fire() appends exactly one bullet and sets the
\* timestamp to the time of the call, which is at least fireRate after the
\* previous accepted one.
C11_FireCooldown ==
  [][lastOp'.op = "fire"
     => /\ lastOp'.t - zaku.lastFireTime < 100
             => (lastOp'.ret = FALSE /\ zaku' = zaku)
        /\ lastOp'.ret = TRUE
             => /\ lastOp'.t - zaku.lastFireTime >= 100
                /\ Len(zaku'.bullets) = Len(zaku.bullets) + 1
                /\ SubSeq(zaku'.bullets, 1, Len(zaku.bullets)) = zaku.bullets
                /\ zaku'.bullets[Len(zaku'.bullets)].distanceTraveled = 0
                /\ zaku'.lastFireTime = lastOp'.t
        /\ lastOp'.ret \in BOOLEAN]_vars

\* a fire() some ms after an accepted one, inside the cooldown, was rejected
\* with the earlier bullet still live
C11_Witness ==
  /\ lastOp.op = "fire"
  /\ lastOp.ret = FALSE
  /\ lastOp.t > zaku.lastFireTime
  /\ Len(zaku.bullets) >= 1

\* C12: updateBullets advances every live bullet by speed * deltaTime and
\* removes exactly those whose accumulated distance has reached the range
\* (60 units at 150 units/s: 0.4 s of frames), in the first call at which it
\* has, so no bullet is live at or past its range after an update; the
\* removal does no damage and changes no score, streak or shot statistic.
C12_RangeExpiry ==
  [][lastOp'.op = "updateBullets"
     => LET flown == [k \in 1..Len(zaku.bullets) |->
                        [zaku.bullets[k] EXCEPT !.distanceTraveled = @ + 150 * lastOp'.dt]]
        IN /\ zaku'.bullets = SelectSeq(flown, LAMBDA b : b.distanceTraveled < 60 * 1000)
           /\ \A k \in 1..Len(zaku'.bullets) :
                 zaku'.bullets[k].distanceTraveled < zaku'.bullets[k].maxDistance
           /\ colony' = colony
           /\ scoreSystem' = scoreSystem]_vars

\* an update removed a bullet that had flown exactly its range over two
\* frames while a younger bullet stayed live
C12_Witness ==
  /\ lastOp.op = "updateBullets"
  /\ lastOp.dt < 400
  /\ lastOp.removed = 1
  /\ Len(zaku.bullets) >= 1
  /\ colony = NewColony
  /\ scoreSystem = NewScoreSystem

FlightDeltas == {0, 16, 4000}

MoveInputs == [boost : BOOLEAN, thrust : BOOLEAN, rotation : {0}]

ProcessMovement(input, dt) ==
  /\ steps < MaxSteps
  /\ zaku' = processMovement(zaku, input, dt)
  /\ lastOp' = [op |-> "processMovement", input |-> input, dt |-> dt,
                energyBefore |-> zaku.boostEnergy, speedBefore |-> zaku.speed]
  /\ steps' = steps + 1
  /\ UNCHANGED <<colony, scoreSystem, state, missionTimer, now, pendingCrash, lastGameData, storage, server, sinceScore>>

NextFlight == \E input \in MoveInputs, dt \in FlightDeltas : ProcessMovement(input, dt)

SpecFlight == Init /\ [][NextFlight]_vars

(***************************************************************************)
(* Claims about the flight                                                 *)
(***************************************************************************)
\* C16: after any sequence of processMovement ticks, with any frame time
\* >= 0 and any pattern of the boost key, 0 <= boostEnergy <= 100; a tick
\* with boost held and energy > 0 drains 25 per second down to 0 at most,
\* every other tick regenerates 15 per second up to 100 at most.
C16_BoostEnergyClamped ==
  [][lastOp'.op = "processMovement"
     => /\ zaku'.boostEnergy >= 0
        /\ zaku'.boostEnergy <= 100 * 1000
        /\ IF lastOp'.input.boost /\ zaku.boostEnergy > 0
           THEN /\ zaku'.boostEnergy <= zaku.boostEnergy
                /\ zaku'.boostEnergy >= zaku.boostEnergy - 25 * lastOp'.dt
                /\ zaku'.boostEnergy > 0 => zaku'.boostEnergy = zaku.boostEnergy - 25 * lastOp'.dt
           ELSE /\ zaku'.boostEnergy >= zaku.boostEnergy
                /\ zaku'.boostEnergy <= zaku.boostEnergy + 15 * lastOp'.dt
                /\ zaku'.boostEnergy < 100 * 1000
                     => zaku'.boostEnergy = zaku.boostEnergy + 15 * lastOp'.dt]_vars

\* a boosted tick longer than the energy left lasted: the energy stopped at 0
C16_Witness ==
  /\ lastOp.op = "processMovement"
  /\ lastOp.input.boost
  /\ lastOp.energyBefore > 0
  /\ lastOp.energyBefore < 25 * lastOp.dt
  /\ zaku.isBoosting
  /\ zaku.boostEnergy = 0

(***************************************************************************)
(* The boost key and a movement axis held down from rest                   *)
(***************************************************************************)
\* frame times in ms: 60 fps and 20 fps (at which a full boost lasts 80 ticks)
BoostDeltas == {16, 50}

HoldBoost(dt) ==
  /\ steps < MaxBoostTicks
  /\ zaku' = processMovement(zaku, [boost |-> TRUE, thrust |-> TRUE, rotation |-> 0], dt)
  /\ lastOp' = [op |-> "processMovement", input |-> [boost |-> TRUE, thrust |-> TRUE, rotation |-> 0],
                dt |-> dt, energyBefore |-> zaku.boostEnergy, speedBefore |-> zaku.speed]
  /\ steps' = steps + 1
  /\ UNCHANGED <<colony, scoreSystem, state, missionTimer, now, pendingCrash, lastGameData, storage, server, sinceScore>>

NextBoost == \E dt \in BoostDeltas : HoldBoost(dt)

SpecBoost == Init /\ [][NextBoost]_vars

\* C17 as stated: from rest with the boost full, in every tick with boost
\* and a movement axis held the speed comes no farther from boostSpeed (60)
\* than it was, however long boost is held, and never exceeds boostSpeed.
C17_SpeedApproachesBoostSpeed ==
  [][lastOp'.op = "processMovement"
     => /\ zaku'.speed <= 60 * SpeedScale
        /\ zaku'.speed >= zaku.speed]_vars

\* C17, amended: from rest with the boost full, in every tick with boost
\* and a movement axis held that starts with boost energy left, the speed
\* moves 1/100 of the way to boostSpeed (60) and never exceeds it; in a tick
\* that starts with the energy at 0 it moves 3/100 of the way to normalSpeed
\* (20) instead; at every tick the speed is at most boostSpeed.
C17_SpeedApproachesWhileEnergyLasts ==
  [][lastOp'.op = "processMovement"
     => /\ zaku'.speed <= 60 * SpeedScale
        /\ zaku'.speed >= 0
        /\ zaku.boostEnergy > 0
             => /\ zaku'.speed >= zaku.speed
                /\ zaku'.speed = zaku.speed + (60 * SpeedScale - zaku.speed) \div 100
        /\ zaku.boostEnergy = 0
             => zaku'.speed = zaku.speed + (3 * (20 * SpeedScale - zaku.speed)) \div 100]_vars

\* after 80 boosted ticks the speed is past half of boostSpeed, the energy
\* is used up and the tick that follows has slowed the unit down
C17_Witness ==
  /\ lastOp.op = "processMovement"
  /\ lastOp.energyBefore = 0
  /\ lastOp.speedBefore > 30 * SpeedScale
  /\ zaku.speed < lastOp.speedBefore
  /\ ~zaku.isBoosting

(***************************************************************************)
(* The weapon against a colony that other attacks have damaged             *)
(***************************************************************************)
\* damage done by the beam between two passes, in tenths: 10 and 30
VolleyAmounts == {10 * Scale, 30 * Scale}

NextVolley ==
  \/ NextWeapon
  \/ \E i \in ValidIndices, amount \in VolleyAmounts : DamageSection(i, amount)

SpecVolley == Init /\ [][NextVolley]_vars

\* C21: hit resolution never selects a destroyed section, also when the
\* section in the ray's path was destroyed earlier in the same pass: every
\* bullet that checkBulletCollisions takes out of flight has damaged a
\* section that was not destroyed when the bullet was handled.
C21_DestroyedNeverSelected ==
  [][lastOp'.op = "checkBulletCollisions"
     => LET struck == {k \in 1..Len(zaku.bullets) : lastOp'.hits[k] # 0 - 1}
        IN /\ Len(zaku'.bullets) = Len(zaku.bullets) - Cardinality(struck)
           /\ Len(lastOp'.events) = Cardinality(struck)]_vars

(***************************************************************************)
(* The websocket heartbeat: clients connect, answer or stay silent, and    *)
(* the 30 s ping round runs in between                                     *)
(***************************************************************************)
\* what the server's handlers leave alone: the game in the browser
gameVars == <<colony, scoreSystem, state, missionTimer, zaku, now, pendingCrash,
              lastGameData, storage, sinceScore>>

\* wss.on('connection')
Connect(ws) ==
  /\ steps < MaxServerSteps
  /\ ws \notin server.wssClients
  /\ server' = [handleConnection(server, ws) EXCEPT !.unanswered = @ \ {ws}]
  /\ lastOp' = [op |-> "connection", ws |-> ws]
  /\ steps' = steps + 1
  /\ UNCHANGED gameVars

\* ws.on('message')
Message(ws, kind) ==
  /\ steps < MaxServerSteps
  /\ ws \in server.wssClients
  /\ server' = [handleMessage(server, ws, kind) EXCEPT
                  !.unanswered = IF kind = "pong" THEN @ \ {ws} ELSE @]
  /\ lastOp' = [op |-> "message", ws |-> ws, kind |-> kind]
  /\ steps' = steps + 1
  /\ UNCHANGED gameVars

\* ws.on('pong')
PongFrame(ws) ==
  /\ steps < MaxServerSteps
  /\ ws \in server.wssClients
  /\ server' = [onPong(server, ws) EXCEPT !.unanswered = @ \ {ws}]
  /\ lastOp' = [op |-> "pong", ws |-> ws]
  /\ steps' = steps + 1
  /\ UNCHANGED gameVars

\* ws.on('close'): the client went away
Close(ws) ==
  /\ steps < MaxServerSteps
  /\ ws \in server.wssClients
  /\ server' = [onClose(server, ws) EXCEPT !.unanswered = @ \ {ws}]
  /\ lastOp' = [op |-> "close", ws |-> ws]
  /\ steps' = steps + 1
  /\ UNCHANGED gameVars

\* ws.on('error')
Error(ws) ==
  /\ steps < MaxServerSteps
  /\ ws \in server.wssClients
  /\ server' = onError(server, ws)
  /\ lastOp' = [op |-> "error", ws |-> ws]
  /\ steps' = steps + 1
  /\ UNCHANGED gameVars

\* the heartbeat interval fires
PingRound ==
  /\ steps < MaxServerSteps
  /\ \E sv \in {heartbeat(server)} :
       /\ server' = [sv EXCEPT !.unanswered = sv.wssClients]
       /\ lastOp' = [op |-> "heartbeat", terminated |-> server.wssClients \ sv.wssClients]
  /\ steps' = steps + 1
  /\ UNCHANGED gameVars

NextHeartbeat ==
  \/ \E ws \in Sockets : Connect(ws)
  \/ \E ws \in Sockets, kind \in MessageKinds : Message(ws, kind)
  \/ \E ws \in Sockets : PongFrame(ws)
  \/ \E ws \in Sockets : Close(ws)
  \/ \E ws \in Sockets : Error(ws)
  \/ PingRound

SpecHeartbeat == Init /\ [][NextHeartbeat]_vars

\* C22: a ping round keeps every connected client that has answered (by a
\* pong frame or a {type:'pong'} message) since the round before, or that
\* connected since; it terminates every client that was pinged by the round
\* before and has not answered, takes it out of the clients set, and
\* getConnectedCount counts the clients left.
C22_HeartbeatTerminatesSilent ==
  [][lastOp'.op = "heartbeat"
     => /\ \A ws \in server.wssClients :
             IF ws \in server.unanswered
             THEN ws \notin server'.wssClients /\ ws \notin server'.clients
             ELSE /\ ws \in server'.wssClients
                  /\ ws \in server.clients => ws \in server'.clients
        /\ lastOp'.terminated = server.wssClients \cap server.unanswered
        /\ getConnectedCount(server') = Cardinality(server.clients \ server.unanswered)]_vars

\* a round that terminates one client and keeps another that has answered
C22_Witness ==
  /\ lastOp.op = "heartbeat"
  /\ lastOp.terminated # {}
  /\ server.clients # {}
  /\ steps >= 5

(***************************************************************************)
(* POST /api/scores handled concurrently: each submission runs from one    *)
(* await to the next in a step of its own, and the file writes finish in   *)
(* the order in which db.write() was called                                *)
(***************************************************************************)
\* the scores submitted
SubmittedScores == {50, 100}

\* the handler starts: isNewHighScore -> getHighScore -> await db.read()
PostScore(r, score) ==
  /\ server.requests[r].pc = "idle"
  /\ server' = [server EXCEPT !.requests[r].pc = "check", !.requests[r].score = score]
  /\ lastOp' = [op |-> "post", r |-> r, score |-> score]
  /\ UNCHANGED <<gameVars, steps>>

\* the read of getHighScore completes: willBeHighScore is decided, addScore
\* is called and awaits its own db.read()
IsNewHighScore(r) ==
  /\ server.requests[r].pc = "check"
  /\ \E sv \in {dbRead(server)} :
       /\ server' = [sv EXCEPT !.requests[r].pc = "add",
                               !.requests[r].willBeHighScore =
                                   isNewHighScore(sv, server.requests[r].score)]
       /\ lastOp' = [op |-> "isNewHighScore", r |-> r,
                     ret |-> isNewHighScore(sv, server.requests[r].score)]
  /\ UNCHANGED <<gameVars, steps>>

\* the read of addScore completes: push, sort, db.write() called
AddScoreRecord(r) ==
  /\ server.requests[r].pc = "add"
  /\ server' = [addScorePush(server, r, server.requests[r].score) EXCEPT
                  !.requests[r].pc = "write"]
  /\ lastOp' = [op |-> "addScore", r |-> r, score |-> server.requests[r].score,
                willBeHighScore |-> server.requests[r].willBeHighScore]
  /\ UNCHANGED <<gameVars, steps>>

\* the oldest write finishes: the file holds its text; addScore returns the
\* rank and the handler broadcasts and responds
WriteDone(r) ==
  /\ server.requests[r].pc = "write"
  /\ Len(server.writes) > 0
  /\ server.writes[1].r = r
  /\ server' = [server EXCEPT
                  !.scores = server.writes[1].text,
                  !.writes = Tail(@),
                  !.requests[r].pc = "done",
                  !.requests[r].rank = addScoreRank(server, r),
                  !.announced = IF server.requests[r].willBeHighScore
                                THEN Append(@, server.requests[r].score) ELSE @]
  /\ lastOp' = [op |-> "respond", r |-> r, rank |-> addScoreRank(server, r)]
  /\ UNCHANGED <<gameVars, steps>>

NextServer ==
  \/ \E r \in Requests, score \in SubmittedScores : PostScore(r, score)
  \/ \E r \in Requests : IsNewHighScore(r)
  \/ \E r \in Requests : AddScoreRecord(r)
  \/ \E r \in Requests : WriteDone(r)

\* the server starts with the record of an earlier session (id 0, score 10)
\* in scores.json
InitServer ==
  /\ colony = NewColony
  /\ scoreSystem = NewScoreSystem
  /\ state = "playing"
  /\ missionTimer = missionTime
  /\ zaku = NewZaku
  /\ now = StartTime
  /\ pendingCrash = <<>>
  /\ lastGameData = Null
  /\ storage = NewStorage("ok")
  /\ server = [NewServer EXCEPT !.scores = <<[id |-> 0, score |-> 10]>>,
                                !.data = <<[id |-> 0, score |-> 10]>>]
  /\ lastOp = [op |-> "init"]
  /\ sinceScore = 0
  /\ steps = 0

SpecServer == InitServer /\ [][NextServer]_vars

\* C23: a submission is reported and broadcast as a new high score only if,
\* when its record is added, its score is strictly greater than every score
\* stored in the leaderboard.
C23_AnnouncedOnlyIfHighest ==
  [][lastOp'.op = "addScore" /\ lastOp'.willBeHighScore
     => \A k \in 1..Len(server.scores) : server.scores[k].score < lastOp'.score]_vars

\* C29: the record of every submission whose addScore has completed is in
\* the stored scores list, and the rank returned for it is at least 1.
C29_NoRecordLost ==
  \A r \in Requests :
    server.requests[r].pc = "done"
      => /\ \E k \in 1..Len(server.scores) : server.scores[k].id = r
         /\ server.requests[r].rank >= 1

\* C24: the frame that follows restartGame finds the new mission playing
\* and runs update: no callback scheduled by handleZakuCrash during the
\* previous mission has ended the restarted mission or saved a leaderboard
\* entry for it.
C24_RestartDropsCrashCallbacks ==
  [][(lastOp.op = "restartGame" /\ lastOp'.op = "gameLoop")
     => lastOp'.called]_vars

\* C25: right after restartGame the game is that of a freshly started
\* mission: playing, timer at missionTime, score, streak and statistics
\* zero, the colony new, the boost full, the unit at rest, and no bullet of
\* the previous mission in flight.
C25_RestartIsFresh ==
  lastOp.op = "restartGame"
    => /\ state = "playing"
       /\ missionTimer = missionTime
       /\ scoreSystem.score = 0
       /\ scoreSystem.combo = 0
       /\ scoreSystem.stats = NewStats
       /\ colony = NewColony
       /\ zaku.boostEnergy = maxBoostEnergy
       /\ zaku.speed = 0
       /\ Len(zaku.bullets) = 0

\* C26: a frame that starts with the game over or paused changes neither
\* the mission timer, the score, the streak and its timer, the statistics,
\* the colony (section health, destruction percentage) nor the unit (its
\* motion, which is what moves it, and its bullets): update is not run.
C26_NoChangeUnlessPlaying ==
  [][(state \in {"gameover", "paused"} /\ lastOp'.op = "gameLoop")
     => /\ ~lastOp'.called
        /\ missionTimer' = missionTimer
        /\ scoreSystem'.score = scoreSystem.score
        /\ scoreSystem'.combo = scoreSystem.combo
        /\ scoreSystem'.comboTimer = scoreSystem.comboTimer
        /\ scoreSystem'.stats = scoreSystem.stats
        /\ colony' = colony
        /\ zaku' = zaku]_vars

\* a frame run while the game is paused with a bullet in flight and the
\* timer started
C26_Witness ==
  /\ lastOp.op = "gameLoop"
  /\ state = "paused"
  /\ Len(zaku.bullets) > 0
  /\ missionTimer < missionTime

(***************************************************************************)
(* The bullets' rays in one dimension: along the line of fire the colony's *)
(* surface lies at some distance from the point where the bullet was       *)
(* spawned, and the ray of checkBulletCollisions meets it when that        *)
(* distance is between the bullet's position and the ray's far end         *)
(***************************************************************************)
\* distances from a bullet's spawn point to the colony along its line of
\* fire, in thousandths: within range, just beyond it, far beyond it
TargetDistances == {30 * 1000, 61 * 1000, 100 * 1000}

\* far of the Raycaster: bullet.userData.speed * this.deltaTime * 2
RayFar(bullet, dt) == bullet.speed * dt * 2

\* intersectObjects finds the surface at distance dist from the spawn point
RayMeets(bullet, dist, dt) ==
  /\ bullet.distanceTraveled <= dist
  /\ dist <= bullet.distanceTraveled + RayFar(bullet, dt)

\* the section whose mesh the ray meets: the first one standing
FacingSection(c) ==
  IF getHitTargets(c) = {} THEN NoHit
  ELSE CHOOSE i \in getHitTargets(c) : \A j \in getHitTargets(c) : i <= j

\* the bullet part of update(deltaTime): zaku.update advances the bullets,
\* then checkBulletCollisions casts their rays; dist[k] is the distance of
\* the colony on the line of fire of the k-th bullet left in flight
RangedFrame(dt) ==
  /\ steps < MaxSteps
  /\ now' = now + dt
  /\ \E z1 \in {updateBullets(zaku, dt)} :
     \E dist \in [1..Len(z1.bullets) -> TargetDistances] :
     \E hits \in {[k \in 1..Len(z1.bullets) |->
                     IF RayMeets(z1.bullets[k], dist[k], dt)
                     THEN FacingSection(colony) ELSE NoHit]} :
     \E w \in {checkBulletCollisions([colony |-> colony, ss |-> scoreSystem, zaku |-> z1,
                                      events |-> <<>>, scored |-> FALSE], hits)} :
        /\ colony' = w.colony
        /\ scoreSystem' = w.ss
        /\ zaku' = w.zaku
        /\ sinceScore' = IF w.scored THEN 0 ELSE sinceScore
        /\ lastOp' = [op |-> "rangedFrame", dt |-> dt, dist |-> dist, hits |-> hits,
                      events |-> w.events]
  /\ steps' = steps + 1
  /\ UNCHANGED <<state, missionTimer, pendingCrash, lastGameData, storage, server>>

NextRange ==
  \/ \E elapsed \in Elapsed : Fire(elapsed)
  \/ \E dt \in FlightTimes : RangedFrame(dt)

SpecRange == Init /\ [][NextRange]_vars

\* C27: a bullet's ray never meets the colony at a point farther than the
\* bullet's maximum range (60) from its spawn point, so a frame in which the
\* colony is beyond range on every line of fire does no damage.
C27_NoDamageBeyondRange ==
  [][lastOp'.op = "rangedFrame"
     => /\ \A k \in DOMAIN lastOp'.dist :
             lastOp'.dist[k] > bulletRange => lastOp'.hits[k] = NoHit
        /\ (\A k \in DOMAIN lastOp'.dist : lastOp'.dist[k] > bulletRange)
             => colony' = colony]_vars

\* C28: what every mission end records has a time remaining of at least 0
\* and a time bonus of at least 0, so the final score is not below the base
\* score; the same holds for the time of every leaderboard entry.
C28_TimeRemainingNotNegative ==
  /\ lastGameData # Null
       => /\ lastGameData.timeRemaining >= 0
          /\ lastGameData.timeBonus >= 0
          /\ lastGameData.finalScore >= lastGameData.baseScore
  /\ \A k \in 1..Len(storage.rankings) : storage.rankings[k].time >= 0

(***************************************************************************)
(* The heading: rotate keys, ticks without them, and the position reset    *)
(***************************************************************************)
\* frame times in ms: a 60 fps frame and a 10 fps frame
HeadingDeltas == {16, 100}

HeadingInputs == [boost : {FALSE}, thrust : {FALSE}, rotation : {0 - 1, 0, 1}]

\* the R key, or the restart button through restartGame
ResetZakuPosition ==
  /\ steps < MaxSteps
  /\ zaku' = resetZakuPosition(zaku)
  /\ lastOp' = [op |-> "resetZakuPosition"]
  /\ steps' = steps + 1
  /\ UNCHANGED <<colony, scoreSystem, state, missionTimer, now, pendingCrash, lastGameData, storage, server, sinceScore>>

NextHeading ==
  \/ \E input \in HeadingInputs, dt \in HeadingDeltas : ProcessMovement(input, dt)
  \/ ResetZakuPosition

SpecHeading == Init /\ [][NextHeading]_vars

\* C30: resetZakuPosition leaves the heading at 0, and a tick without
\* rotation input that follows it keeps the heading at 0.
C30_HeadingStaysReset ==
  [][/\ lastOp'.op = "resetZakuPosition" => zaku'.currentRotation = 0
     /\ (/\ lastOp.op = "resetZakuPosition"
         /\ lastOp'.op = "processMovement"
         /\ lastOp'.input.rotation = 0)
          => zaku'.currentRotation = 0]_vars

====
